---- MODULE Spec2Model ----
(***************************************************************************)
(* A model of the store agent of sgr-agent-store:                          *)
(*   - fetch_all_products, the paginated catalog fetch                     *)
(*     (store_agent.py:12-50);                                             *)
(*   - find_best_coupon, the coupon evaluator tool                         *)
(*     (store_agent.py:147-203);                                           *)
(*   - the agent that run_agent builds: an LLM acting through the basket   *)
(*     tools (store_agent.py:57-120) under the rules of the system prompt  *)
(*     (store_agent.py:227-290);                                           *)
(*   - the benchmark session loop (main.py:31-71).                         *)
(* The remote store (erc3) is not part of the repository: it is modelled   *)
(* from its request/response contract, and every request may also fail.    *)
(***************************************************************************)
EXTENDS Integers, Sequences, FiniteSets, TLC

\* ------------------------------------------------------------ bounds
\* Largest catalog the store lists.
MaxCatalog == 4
\* Largest page size the store may enforce (or name in a page-limit error).
MaxPage == 3
\* How many requests of one behaviour the store may fail out of contract.
MaxFaults == 1
\* Longest candidate coupon list handed to find_best_coupon.
MaxCoupons == 2
\* Totals the store quotes range over 1..MaxTotal.
MaxTotal == 3
\* Most tasks of a benchmark session.
MaxTasks == 3
\* Largest --skip given on the command line.
MaxSkip == 2
\* Most candidate compositions the agent tests for a task.
MaxCands == 2
\* Units of each SKU the store has when the agent starts.
MaxStock == 6

\* ------------------------------------------------------------ constants
\* store_agent.py:15  limit = 3
DefaultLimit == 3
\* The end-of-listing marker of ListProducts (store_agent.py:25).
NoNextPage == -1

None == "None"

VARIABLES
    \* ---- the store, catalog side
    catalogLen,   \* the catalog is <<1, ..., catalogLen>>, SKUs in listing order
    maxPage,      \* the page size the store enforces
    lazyEnd,      \* the store ends a listing that fills its last page with an empty page
    faultsLeft,   \* out-of-contract failures the store may still produce
    \* ---- fetch_all_products
    fpc,          \* "loop" | "returned" | "raised"
    all_products,
    offset,
    limit,
    retried_with_lower_limit,
    restarts,     \* history: how often the scan was restarted
    listLog,      \* history: the ListProducts requests issued, with their answers
    \* ---- the store, basket side
    lines,        \* the basket's lines: SKU -> quantity
    coupon,       \* the coupon active on the basket, or None
    accepted,     \* the codes the store accepts for this basket
    quote,        \* the total the store reports for this basket: quote[None]
                  \* with no coupon, quote[c] with the accepted code c active
    removeNeedsCoupon,  \* RemoveCoupon is an error when no coupon is active
    \* ---- find_best_coupon
    cpc,          \* "idle" | "clear" | "baseline" | "apply" | "view" | "finish"
                  \* | "returned" | "raised"
    coupons,      \* the argument
    idx,          \* position of the for loop in coupons
    best_coupon,
    best_total,
    base_total,
    report,
    result,       \* which return statement was taken
    wire,         \* history: the requests this call issued, with their answers
    prev,         \* history: how the previous call with the same list ended
    \* ---- main.py, the session loop
    nTasks,       \* len(status.tasks); the tasks are 0 .. nTasks - 1
    skip,         \* args.skip
    spc,          \* "for" | "run" | "log" | "complete" | "done" | "crashed"
    i,            \* the index of the for loop
    stats,        \* what run_agent returned, or None
    calls,        \* history: the calls made, in order, with how they ended
    \* ---- the agent under the system prompt (store_agent.py:227-290)
    apc,          \* "clear" | "add" | "evaluate" | "checkout" | "adjust"
                  \* | "committed" | "failed" | "infeasible"
    stage,        \* "test": candidates are priced; "final": the winner is bought
    cands,        \* the candidate compositions, in the order they are tested
    cand,         \* the position in cands of the composition at hand
    prices,       \* what was recorded for the candidates tested so far
    mandated,     \* the coupon the task requires, or None
    acceptsFor,   \* the compositions for which the store accepts that coupon
    stock,        \* the store's inventory: SKU -> quantity
    toolLog       \* history: the tool calls made, with the lines before each

fetchVars == <<fpc, all_products, offset, limit, retried_with_lower_limit,
               restarts, listLog>>
catalogVars == <<catalogLen, maxPage, lazyEnd>>
basketVars == <<lines, coupon>>
priceVars == <<accepted, quote, removeNeedsCoupon>>
evalVars == <<best_coupon, best_total, base_total, report>>
couponVars == <<cpc, coupons, idx, evalVars, result, wire, prev>>
couponSide == <<basketVars, priceVars, couponVars>>
fetchSide == <<catalogVars, fetchVars>>
sessionVars == <<nTasks, skip, spc, i, stats, calls>>
agentVars == <<apc, stage, cands, cand, prices, mandated, acceptsFor, stock,
               toolLog>>
otherSide == <<sessionVars, agentVars>>
vars == <<faultsLeft, fetchSide, couponSide, otherSide>>

\* ------------------------------------------------------------ helpers
Min(a, b) == IF a < b THEN a ELSE b

\* ------------------------------------------------------------
\* The store's ListProducts (spec section 6)
\* ------------------------------------------------------------
Catalog == [k \in 1..catalogLen |-> k]

\* The page at (off, lim) of a store that accepts lim.
PageOf(off, lim) ==
    LET last == Min(off + lim, catalogLen)
        more == \/ off + lim < catalogLen
                \/ (lazyEnd /\ off + lim = catalogLen /\ lim > 0)
    IN  [kind |-> "page",
         products |-> IF off + 1 <= last THEN SubSeq(Catalog, off + 1, last) ELSE <<>>,
         next_offset |-> IF more THEN off + lim ELSE NoNextPage]

PageLimitError(requested, allowed) ==
    [kind |-> "api", detail |-> <<"page limit exceeded", requested, allowed>>]

OtherApiError == [kind |-> "api", detail |-> <<"internal error">>]

\* An exception of dispatch that is no ApiException (a transport failure).
TransportError == [kind |-> "exc"]

\* What the store answers by contract.
ListProducts(off, lim) ==
    IF lim > maxPage THEN PageLimitError(lim, maxPage) ELSE PageOf(off, lim)

\* The page at (off, lim) with any other continuation.
StrayPages(off, lim) ==
    {[PageOf(off, lim) EXCEPT !.next_offset = n] :
        n \in {NoNextPage} \cup 0..MaxCatalog}

\* Every answer the client may get: the contract's, or, out of contract, a
\* page-limit error naming any size, a page with any continuation, or a
\* failure of any kind.
ListAnswers(off, lim) ==
    {ListProducts(off, lim)}
    \cup (IF faultsLeft > 0
          THEN {PageLimitError(lim, a) : a \in 0..MaxPage}
               \cup StrayPages(off, lim)
               \cup {OtherApiError, TransportError}
          ELSE {})

IsFault(ans, off, lim) == ans # ListProducts(off, lim)

\* ------------------------------------------------------------
\* fetch_all_products (store_agent.py:12-50)
\* ------------------------------------------------------------
\* line 32: re.search(r'page limit exceeded:\s*(\d+)\s*>\s*(\d+)', str(e))
PageLimitMatch(err) == err.detail[1] = "page limit exceeded"

\* (mutant) the requested size, group(1), taken for the allowed one
AvailablePages_Group1(err) == err.detail[2]

\* line 34: int(match.group(2))
AvailablePages(err) == err.detail[3]

\* (mutant) the retry flag is not consulted
ShouldCorrect_NoFlag(err, retried) == PageLimitMatch(err)

\* line 33: if match and not retried_with_lower_limit
ShouldCorrect(err, retried) == PageLimitMatch(err) /\ ~retried

\* line 22-23: extend only by a non-empty page
Extended(acc, res) ==
    IF Len(res.products) > 0 THEN acc \o res.products ELSE acc

\* (mutant) the continuation is ignored and the first page is asked for again
NextOffset_First(res) == 0

\* line 27: offset = res.next_offset
NextOffset(res) == res.next_offset

\* lines 39-41: the restarted scan
RestartProducts(acc) == <<>>

Logged(ans) ==
    Append(listLog, [offset |-> offset, limit |-> limit, scan |-> restarts,
                     answer |-> ans])

Spend(ans) ==
    faultsLeft' = IF IsFault(ans, offset, limit) THEN faultsLeft - 1 ELSE faultsLeft

\* lines 19-27: a page arrives
FetchPage ==
    /\ fpc = "loop"
    /\ \E ans \in ListAnswers(offset, limit) :
        /\ ans.kind = "page"
        /\ all_products' = Extended(all_products, ans)
        /\ IF ans.next_offset = NoNextPage
           THEN fpc' = "returned" /\ offset' = offset
           ELSE fpc' = "loop" /\ offset' = NextOffset(ans)
        /\ listLog' = Logged(ans)
        /\ Spend(ans)
    /\ UNCHANGED <<otherSide, limit, retried_with_lower_limit, restarts, catalogVars, couponSide>>

\* lines 28-45: a page-limit error that may still be corrected
FetchCorrect ==
    /\ fpc = "loop"
    /\ \E ans \in ListAnswers(offset, limit) :
        /\ ans.kind = "api"
        /\ ShouldCorrect(ans, retried_with_lower_limit)
        /\ IF AvailablePages(ans) > 0
           THEN /\ limit' = AvailablePages(ans)
                /\ offset' = 0
                /\ all_products' = RestartProducts(all_products)
                /\ retried_with_lower_limit' = TRUE
                /\ restarts' = restarts + 1
                /\ fpc' = "loop"
           ELSE /\ fpc' = "returned"
                /\ UNCHANGED <<limit, offset, all_products,
                               retried_with_lower_limit, restarts>>
        /\ listLog' = Logged(ans)
        /\ Spend(ans)
    /\ UNCHANGED <<otherSide, catalogVars, couponSide>>

\* (mutant) the error path returns an empty list instead of what was read
FetchGiveUp_DropsProducts ==
    /\ fpc = "loop"
    /\ \E ans \in ListAnswers(offset, limit) :
        /\ ans.kind = "api"
        /\ ~ShouldCorrect(ans, retried_with_lower_limit)
        /\ fpc' = "returned"
        /\ all_products' = <<>>
        /\ listLog' = Logged(ans)
        /\ Spend(ans)
    /\ UNCHANGED <<otherSide, offset, limit, retried_with_lower_limit, restarts,
                   catalogVars, couponSide>>

\* lines 46-49: any other ApiException, or a page-limit error after the retry
FetchGiveUp ==
    /\ fpc = "loop"
    /\ \E ans \in ListAnswers(offset, limit) :
        /\ ans.kind = "api"
        /\ ~ShouldCorrect(ans, retried_with_lower_limit)
        /\ fpc' = "returned"
        /\ listLog' = Logged(ans)
        /\ Spend(ans)
    /\ UNCHANGED <<otherSide, all_products, offset, limit, retried_with_lower_limit,
                   restarts, catalogVars, couponSide>>

\* line 21 under "except ApiException" (line 28): anything else propagates
FetchRaise ==
    /\ fpc = "loop"
    /\ \E ans \in ListAnswers(offset, limit) :
        /\ ans.kind = "exc"
        /\ fpc' = "raised"
        /\ listLog' = Logged(ans)
        /\ Spend(ans)
    /\ UNCHANGED <<otherSide, all_products, offset, limit, retried_with_lower_limit,
                   restarts, catalogVars, couponSide>>

InitFetch ==
    /\ catalogLen \in 0..MaxCatalog
    /\ maxPage \in 0..MaxPage
    /\ lazyEnd \in BOOLEAN
    /\ faultsLeft \in 0..MaxFaults
    /\ fpc = "loop"
    /\ all_products = <<>>
    /\ offset = 0
    /\ limit = DefaultLimit
    /\ retried_with_lower_limit = FALSE
    /\ restarts = 0
    /\ listLog = <<>>

NextFetch == FetchPage \/ FetchCorrect \/ FetchGiveUp \/ FetchRaise

\* ------------------------------------------------------------
\* The store's basket requests (spec section 6)
\* ------------------------------------------------------------
Skus == {"soda-6pk", "soda-12pk"}
Codes == {"SALEX", "BULK24"}

EmptyBasket == [s \in Skus |-> 0]
\* 2 x soda-6pk and 1 x soda-12pk; 2 x soda-12pk
ExampleBasket == [s \in Skus |-> IF s = "soda-6pk" THEN 2 ELSE 1]
OtherBasket == [s \in Skus |-> IF s = "soda-12pk" THEN 2 ELSE 0]

Req(op, arg) == [op |-> op, arg |-> arg]

Ok(total) == [kind |-> "ok", total |-> total]
Rejected == [kind |-> "api", detail |-> <<"invalid coupon">>]
NoCouponError == [kind |-> "api", detail |-> <<"no coupon applied">>]

\* The coupon active once the store has served req: at most one coupon is
\* active, a new one replaces it, a rejected one changes nothing.
CouponAfter(req) ==
    CASE req.op = "RemoveCoupon" -> None
      [] req.op = "ApplyCoupon" -> IF req.arg \in accepted THEN req.arg ELSE coupon
      [] OTHER -> coupon

\* The lines once the store has served req.
LinesAfter(req) ==
    CASE req.op = "AddProductToBasket" ->
            [lines EXCEPT ![req.arg.sku] = @ + req.arg.quantity]
      [] req.op = "RemoveItemFromBasket" ->
            [lines EXCEPT ![req.arg.sku] =
                IF @ > req.arg.quantity THEN @ - req.arg.quantity ELSE 0]
      [] OTHER -> lines

\* What the store answers by contract; the total is that of the basket after
\* the request (quote holds for the lines the basket has).
BasketContract(req) ==
    CASE req.op = "RemoveCoupon" ->
            IF coupon = None /\ removeNeedsCoupon THEN NoCouponError
            ELSE Ok(quote[None])
      [] req.op = "ApplyCoupon" ->
            IF req.arg \in accepted THEN Ok(quote[req.arg]) ELSE Rejected
      [] OTHER -> Ok(quote[coupon])

\* Every answer the client may get: the contract's, or a failure of any kind.
BasketAnswers(req) ==
    {BasketContract(req)}
    \cup (IF faultsLeft > 0 THEN {OtherApiError, TransportError} ELSE {})

\* ------------------------------------------------------------
\* find_best_coupon (store_agent.py:147-203)
\* ------------------------------------------------------------
Unbound == "unbound"

\* (mutant) a ViewBasket request sent where the coupon is to be removed
RemoveCouponReq_View == Req("ViewBasket", None)

\* (mutant) a line removed where the coupon is to be removed
RemoveCouponReq_Item ==
    Req("RemoveItemFromBasket", [sku |-> "soda-6pk", quantity |-> 1])

\* lines 163, 198: store.Req_RemoveCoupon()
RemoveCouponReq == Req("RemoveCoupon", None)

\* lines 168, 176: store.Req_ViewBasket()
ViewBasketReq == Req("ViewBasket", None)

\* lines 175, 191: store.Req_ApplyCoupon(coupon=code)
ApplyCouponReq(code) == Req("ApplyCoupon", code)

\* (mutant) the comparison reversed
Better_Greater(total, best) == total > best

\* (mutant) a tie replaces the best
Better_OrEqual(total, best) == total <= best

\* line 180: if total < best_total
Better(total, best) == total < best

\* line 189: if best_coupon
Truthy(code) == code # None /\ code # ""

\* store_api.dispatch(req), answered by ans
Dispatch(req, ans) ==
    /\ ans \in BasketAnswers(req)
    /\ coupon' = IF ans.kind = "ok" THEN CouponAfter(req) ELSE coupon
    /\ lines' = IF ans.kind = "ok" THEN LinesAfter(req) ELSE lines
    /\ wire' = Append(wire, [req |-> req, pos |-> idx, answer |-> ans,
                             fault |-> ans # BasketContract(req)])
    /\ faultsLeft' = IF ans # BasketContract(req) THEN faultsLeft - 1
                     ELSE faultsLeft

\* lines 178, 184, 186: report.append(...)
Trial(code, ans) ==
    IF ans.kind = "ok" THEN [code |-> code, kind |-> "total", total |-> ans.total]
    ELSE IF ans.kind = "api" THEN [code |-> code, kind |-> "Invalid"]
    ELSE [code |-> code, kind |-> "Error"]

\* line 173: the for loop moves on, or ends
Advance ==
    /\ idx' = idx + 1
    /\ cpc' = IF idx + 1 > Len(coupons) THEN "finish" ELSE "apply"

\* (mutant) an empty list has the active coupon removed before the return
Enter_EmptyClears(cs) ==
    /\ coupons' = cs
    /\ idx' = 0
    /\ best_coupon' = None
    /\ best_total' = Unbound
    /\ base_total' = Unbound
    /\ report' = <<>>
    /\ IF Len(cs) = 0
       THEN /\ cpc' = "returned" /\ result' = "No coupons provided."
            /\ coupon' = None
            /\ wire' = <<[req |-> RemoveCouponReq, pos |-> 0,
                          answer |-> Ok(quote[None]), fault |-> FALSE]>>
       ELSE /\ cpc' = "clear" /\ result' = None
            /\ coupon' = coupon
            /\ wire' = <<>>
    /\ UNCHANGED <<otherSide, faultsLeft, fetchSide, lines, priceVars>>

\* lines 156-159: the call, with the early return on an empty list
Enter(cs) ==
    /\ coupons' = cs
    /\ wire' = <<>>
    /\ idx' = 0
    /\ best_coupon' = None
    /\ best_total' = Unbound
    /\ base_total' = Unbound
    /\ report' = <<>>
    /\ IF Len(cs) = 0
       THEN cpc' = "returned" /\ result' = "No coupons provided."
       ELSE cpc' = "clear" /\ result' = None
    /\ UNCHANGED <<otherSide, faultsLeft, fetchSide, basketVars, priceVars>>

CouponLists == UNION {[1..n -> Codes] : n \in 0..MaxCoupons}

Call ==
    /\ cpc = "idle"
    /\ \E cs \in CouponLists : Enter(cs)
    /\ UNCHANGED prev

\* (mutant) the existing coupon is not removed first
ClearExisting_Skipped ==
    /\ cpc = "clear"
    /\ cpc' = "baseline"
    /\ UNCHANGED <<otherSide, coupons, idx, evalVars, result, wire, prev, faultsLeft,
                   fetchSide, basketVars, priceVars>>

\* lines 161-165: remove any existing coupon; whatever fails is passed over
ClearExisting ==
    /\ cpc = "clear"
    /\ \E ans \in BasketAnswers(RemoveCouponReq) : Dispatch(RemoveCouponReq, ans)
    /\ cpc' = "baseline"
    /\ UNCHANGED <<otherSide, coupons, idx, evalVars, result, prev, fetchSide, priceVars>>

\* lines 167-171, 202-203: the baseline
ReadBaseline ==
    /\ cpc = "baseline"
    /\ \E ans \in BasketAnswers(ViewBasketReq) :
        /\ Dispatch(ViewBasketReq, ans)
        /\ CASE ans.kind = "ok" ->
                    /\ base_total' = ans.total
                    /\ best_total' = ans.total
                    /\ report' = <<[code |-> "No coupon", kind |-> "total",
                                    total |-> ans.total]>>
                    /\ idx' = 1
                    /\ cpc' = "apply"
                    /\ UNCHANGED result
             [] ans.kind = "api" ->
                    /\ cpc' = "returned"
                    /\ result' = "Error accessing basket"
                    /\ UNCHANGED <<base_total, best_total, report, idx>>
             [] OTHER ->
                    /\ cpc' = "raised"
                    /\ UNCHANGED <<base_total, best_total, report, idx, result>>
    /\ UNCHANGED <<otherSide, coupons, best_coupon, prev, fetchSide, priceVars>>

\* (mutant) a rejected code ends the loop
ApplyCode_StopsOnInvalid ==
    /\ cpc = "apply"
    /\ \E ans \in BasketAnswers(ApplyCouponReq(coupons[idx])) :
        /\ Dispatch(ApplyCouponReq(coupons[idx]), ans)
        /\ IF ans.kind = "ok"
           THEN cpc' = "view" /\ UNCHANGED <<idx, report>>
           ELSE /\ report' = Append(report, Trial(coupons[idx], ans))
                /\ idx' = idx + 1
                /\ cpc' = "finish"
    /\ UNCHANGED <<otherSide, coupons, best_coupon, best_total, base_total, result, prev,
                   fetchSide, priceVars>>

\* lines 175, 183-186: one code is applied
ApplyCode ==
    /\ cpc = "apply"
    /\ \E ans \in BasketAnswers(ApplyCouponReq(coupons[idx])) :
        /\ Dispatch(ApplyCouponReq(coupons[idx]), ans)
        /\ IF ans.kind = "ok"
           THEN cpc' = "view" /\ UNCHANGED <<idx, report>>
           ELSE report' = Append(report, Trial(coupons[idx], ans)) /\ Advance
    /\ UNCHANGED <<otherSide, coupons, best_coupon, best_total, base_total, result, prev,
                   fetchSide, priceVars>>

\* (mutant) an exception that is no ApiException leaves the loop and the call
ViewTrial_Propagates ==
    /\ cpc = "view"
    /\ \E ans \in BasketAnswers(ViewBasketReq) :
        /\ Dispatch(ViewBasketReq, ans)
        /\ IF ans.kind = "exc"
           THEN /\ cpc' = "raised"
                /\ UNCHANGED <<idx, report, best_total, best_coupon>>
           ELSE /\ report' = Append(report, Trial(coupons[idx], ans))
                /\ IF ans.kind = "ok" /\ Better(ans.total, best_total)
                   THEN best_total' = ans.total /\ best_coupon' = coupons[idx]
                   ELSE UNCHANGED <<best_total, best_coupon>>
                /\ Advance
    /\ UNCHANGED <<otherSide, coupons, base_total, result, prev, fetchSide, priceVars>>

\* lines 176-186: its total is read and compared
ViewTrial ==
    /\ cpc = "view"
    /\ \E ans \in BasketAnswers(ViewBasketReq) :
        /\ Dispatch(ViewBasketReq, ans)
        /\ report' = Append(report, Trial(coupons[idx], ans))
        /\ IF ans.kind = "ok" /\ Better(ans.total, best_total)
           THEN best_total' = ans.total /\ best_coupon' = coupons[idx]
           ELSE UNCHANGED <<best_total, best_coupon>>
    /\ Advance
    /\ UNCHANGED <<otherSide, coupons, base_total, result, prev, fetchSide, priceVars>>

\* (mutant) the best coupon is reported but not applied again
ReapplyBest_Skipped ==
    /\ cpc = "finish"
    /\ Truthy(best_coupon)
    /\ result' = "Applied best"
    /\ cpc' = "returned"
    /\ UNCHANGED <<otherSide, coupons, idx, evalVars, wire, prev, faultsLeft, fetchSide,
                   basketVars, priceVars>>

\* lines 189-194: the best coupon is applied again
ReapplyBest ==
    /\ cpc = "finish"
    /\ Truthy(best_coupon)
    /\ \E ans \in BasketAnswers(ApplyCouponReq(best_coupon)) :
        /\ Dispatch(ApplyCouponReq(best_coupon), ans)
        /\ result' = IF ans.kind = "ok" THEN "Applied best"
                     ELSE "Error re-applying best coupon"
    /\ cpc' = "returned"
    /\ UNCHANGED <<otherSide, coupons, idx, evalVars, prev, fetchSide, priceVars>>

\* lines 195-201: no coupon was better; whatever fails is passed over
EnsureNoCoupon ==
    /\ cpc = "finish"
    /\ ~Truthy(best_coupon)
    /\ \E ans \in BasketAnswers(RemoveCouponReq) : Dispatch(RemoveCouponReq, ans)
    /\ result' = "No coupon applied"
    /\ cpc' = "returned"
    /\ UNCHANGED <<otherSide, coupons, idx, evalVars, prev, fetchSide, priceVars>>

NoPrev == [called |-> FALSE]

\* The tool is called a second time with the same list, the basket untouched.
Recall ==
    /\ cpc = "returned"
    /\ prev = NoPrev
    /\ prev' = [called |-> TRUE, best_coupon |-> best_coupon,
                best_total |-> best_total, result |-> result, coupon |-> coupon]
    /\ Enter(coupons)

NextCoupon ==
    \/ Call \/ ClearExisting \/ ReadBaseline \/ ApplyCode \/ ViewTrial
    \/ ReapplyBest \/ EnsureNoCoupon

NextRerun == NextCoupon \/ Recall

\* ------------------------------------------------------------
\* The session loop (main.py:31-71)
\* ------------------------------------------------------------
\* One call of the script, as the log keeps it.
Event(op, task, out) == [op |-> op, task |-> task, out |-> out]

\* How a call of the ERC3 core may end: it returns, or raises an ApiException
\* or another exception.
CoreOutcomes == {"ok", "api", "exc"}

\* run_agent returns its statistics (store_agent.py:331-339), or raises: line
\* 212 and what precedes it are outside its try.
AgentOutcomes == {"stats", "raised"}

\* line 48: if stats
HasStats(st) == st # None

\* lines 31-35: a task before the skip mark is passed over
SkipTask ==
    /\ spc = "for" /\ i < nTasks /\ i < skip
    /\ i' = i + 1
    /\ UNCHANGED <<nTasks, skip, spc, stats, calls>>
    /\ UNCHANGED <<faultsLeft, fetchSide, couponSide, agentVars>>

\* line 40: core.start_task(task), in no try
StartTask ==
    /\ spc = "for" /\ i < nTasks /\ i >= skip
    /\ \E out \in CoreOutcomes :
        /\ calls' = Append(calls, Event("start_task", i, out))
        /\ spc' = IF out = "ok" THEN "run" ELSE "crashed"
    /\ UNCHANGED <<nTasks, skip, i, stats>>
    /\ UNCHANGED <<faultsLeft, fetchSide, couponSide, agentVars>>

\* lines 41-45: run_agent, and stats = None when it raises
RunAgent ==
    /\ spc = "run"
    /\ \E out \in AgentOutcomes :
        /\ calls' = Append(calls, Event("run_agent", i, out))
        /\ stats' = IF out = "stats" THEN "stats" ELSE None
    /\ spc' = "log"
    /\ UNCHANGED <<nTasks, skip, i>>
    /\ UNCHANGED <<faultsLeft, fetchSide, couponSide, agentVars>>

\* lines 48-57: the usage is logged when there are statistics; a failure of
\* the call is printed
LogUsage ==
    /\ spc = "log"
    /\ IF HasStats(stats)
       THEN \E out \in CoreOutcomes :
                calls' = Append(calls, Event("log_llm", i, out))
       ELSE calls' = calls
    /\ spc' = "complete"
    /\ UNCHANGED <<nTasks, skip, i, stats>>
    /\ UNCHANGED <<faultsLeft, fetchSide, couponSide, agentVars>>

\* (mutant) a task whose agent run gave no statistics is not completed
CompleteTask_OnlyWithStats ==
    /\ spc = "complete"
    /\ IF HasStats(stats)
       THEN \E out \in CoreOutcomes :
                calls' = Append(calls, Event("complete_task", i, out))
       ELSE calls' = calls
    /\ i' = i + 1
    /\ spc' = "for"
    /\ UNCHANGED <<nTasks, skip, stats>>
    /\ UNCHANGED <<faultsLeft, fetchSide, couponSide, agentVars>>

\* lines 59-69: core.complete_task(task); whatever it raises is printed
CompleteTask ==
    /\ spc = "complete"
    /\ \E out \in CoreOutcomes :
        calls' = Append(calls, Event("complete_task", i, out))
    /\ i' = i + 1
    /\ spc' = "for"
    /\ UNCHANGED <<nTasks, skip, stats>>
    /\ UNCHANGED <<faultsLeft, fetchSide, couponSide, agentVars>>

\* line 71: after the loop, core.submit_session
SubmitSession ==
    /\ spc = "for" /\ i = nTasks
    /\ \E out \in CoreOutcomes :
        /\ calls' = Append(calls, Event("submit_session", nTasks, out))
        /\ spc' = IF out = "ok" THEN "done" ELSE "crashed"
    /\ UNCHANGED <<nTasks, skip, i, stats>>
    /\ UNCHANGED <<faultsLeft, fetchSide, couponSide, agentVars>>

NextSession ==
    \/ SkipTask \/ StartTask \/ RunAgent \/ LogUsage \/ CompleteTask
    \/ SubmitSession

\* ------------------------------------------------------------
\* The agent under the system prompt (store_agent.py:227-290). Its steps are
\* the rules the prompt gives the LLM; where the prompt gives no rule the
\* agent is free. Its tools (store_agent.py:68-99) are the code's.
\* ------------------------------------------------------------
\* 6 x soda-6pk
SixPacks == [s \in Skus |-> IF s = "soda-6pk" THEN 6 ELSE 0]

\* rule 3, step 1: the ways to reach the quantity
Compositions == {SixPacks, OtherBasket, ExampleBasket}

CandidateLists ==
    {cs \in UNION {[1..n -> Compositions] : n \in 1..MaxCands} :
        \A j, k \in 1..Len(cs) : cs[j] = cs[k] => j = k}

Quantity(b) == b["soda-6pk"] + b["soda-12pk"]

\* The prices of the prompt's example (lines 231-238): $12 and $20 a pack,
\* and SALEX takes $14 off two 6-packs with one 12-pack.
UnitPrice == [s \in Skus |-> IF s = "soda-6pk" THEN 12 ELSE 20]

Subtotal(b) ==
    UnitPrice["soda-6pk"] * b["soda-6pk"] + UnitPrice["soda-12pk"] * b["soda-12pk"]

Discount(b, code) == IF code = "SALEX" /\ b = ExampleBasket THEN 14 ELSE 0

\* The SKU taken first, in the order of the product list.
FirstSku(S) == IF "soda-6pk" \in S THEN "soda-6pk" ELSE "soda-12pk"

\* The store served a request that changes the basket.
Served == [kind |-> "ok"]

\* CheckoutBasket (spec section 6): it fails for a line that asks for more
\* than the store has, naming what is available and what was requested.
Short == {s \in Skus : lines[s] > stock[s]}

Insufficient(s) ==
    [kind |-> "api",
     detail |-> <<"insufficient inventory", s, stock[s], lines[s]>>]

CheckoutContract ==
    IF Short = {} THEN {Served} ELSE {Insufficient(s) : s \in Short}

CheckoutAnswers ==
    CheckoutContract \cup (IF faultsLeft > 0 THEN {OtherApiError} ELSE {})

\* lines 71-77, 82-88, 93-99: a tool returns the response, or "Error: " and
\* the detail of an ApiException
ToolResult(ans) ==
    IF ans.kind = "api" THEN [error |-> TRUE, detail |-> ans.detail]
    ELSE [error |-> FALSE]

\* rule 6: the result of checkout says "insufficient inventory"
IsInventoryError(res) ==
    res.error /\ res.detail[1] = "insufficient inventory"

ToolCall(tool, arg, ans) ==
    [tool |-> tool, arg |-> arg, before |-> lines, result |-> ToolResult(ans),
     stage |-> stage, cand |-> cand]

LastTool == toolLog[Len(toolLog)]

\* lines 80-88: remove_product(sku, quantity)
RemoveProduct(s, q) ==
    LET req == Req("RemoveItemFromBasket", [sku |-> s, quantity |-> q])
    IN  /\ lines' = LinesAfter(req)
        /\ toolLog' = Append(toolLog, ToolCall("remove_product", req.arg, Served))

\* lines 69-77: add_product(sku, quantity)
AddProduct(s, q) ==
    LET req == Req("AddProductToBasket", [sku |-> s, quantity |-> q])
    IN  /\ lines' = LinesAfter(req)
        /\ toolLog' = Append(toolLog, ToolCall("add_product", req.arg, Served))

\* (mutant) the basket is not looked at before a candidate is added
BasketEnsured_Unchecked == TRUE

\* rule 3, step 2.1: ENSURE BASKET IS EMPTY
BasketEnsured == lines = EmptyBasket

\* rule 3, steps 2.1 and 2.5: remove items, a line at a time
ClearLine ==
    /\ apc = "clear" /\ lines # EmptyBasket
    /\ LET s == FirstSku({t \in Skus : lines[t] > 0})
       IN  RemoveProduct(s, lines[s])
    /\ UNCHANGED <<apc, stage, cands, cand, prices, mandated, acceptsFor, stock>>
    /\ UNCHANGED <<faultsLeft, fetchSide, coupon, priceVars, couponVars,
                   sessionVars>>

\* rule 3, step 2: the next candidate is taken up
BeginCandidate ==
    /\ apc = "clear" /\ stage = "test" /\ cand <= Len(cands)
    /\ BasketEnsured
    /\ apc' = "add"
    /\ UNCHANGED <<stage, cands, cand, prices, mandated, acceptsFor, stock,
                   toolLog>>
    /\ UNCHANGED <<faultsLeft, fetchSide, couponSide, sessionVars>>

\* The SKUs added since the last call of another tool.
AddedNow ==
    {s \in Skus :
        \E k \in 1..Len(toolLog) :
            /\ toolLog[k].tool = "add_product" /\ toolLog[k].arg.sku = s
            /\ \A j \in k..Len(toolLog) : toolLog[j].tool = "add_product"}

\* rule 3, step 2.2 and rule 4 (batching): the items of this one candidate
\* are added, one SKU after the other
AddLine ==
    /\ apc = "add"
    /\ LET s == FirstSku({t \in Skus \ AddedNow : cands[cand][t] > 0})
       IN  /\ AddProduct(s, cands[cand][s])
           /\ apc' = IF \A t \in Skus \ (AddedNow \cup {s}) : cands[cand][t] = 0
                     THEN "evaluate" ELSE "add"
    /\ UNCHANGED <<stage, cands, cand, prices, mandated, acceptsFor, stock>>
    /\ UNCHANGED <<faultsLeft, fetchSide, coupon, priceVars, couponVars,
                   sessionVars>>

\* rule 3, steps 2.3 and 2.4: find_best_coupon prices the basket and the
\* price is recorded, with whether the coupon the task requires was accepted;
\* the call leaves the lines as they are
Evaluate ==
    /\ apc = "evaluate"
    /\ LET valid == mandated = None \/ cands[cand] \in acceptsFor
           best == IF mandated # None
                   THEN (IF valid THEN mandated ELSE None)
                   ELSE (IF Discount(lines, "SALEX") > 0 THEN "SALEX" ELSE None)
           total == Subtotal(lines) - Discount(lines, best)
       IN  /\ coupon' = best
           /\ IF stage = "test"
              THEN /\ prices' = Append(prices, [total |-> total, valid |-> valid])
                   /\ cand' = cand + 1
                   /\ apc' = "clear"
              ELSE /\ apc' = "checkout"
                   /\ UNCHANGED <<prices, cand>>
           /\ toolLog' = Append(toolLog,
                                ToolCall("find_best_coupon", mandated, Served))
    /\ UNCHANGED <<stage, cands, mandated, acceptsFor, stock>>
    /\ UNCHANGED <<faultsLeft, fetchSide, lines, priceVars, couponVars,
                   sessionVars>>

\* (mutant) the required coupon is not looked at when the winner is chosen
Feasible_Any == 1..Len(prices)

\* rule 5: a candidate for which the required coupon failed does not count
Feasible == {k \in 1..Len(prices) : prices[k].valid}

\* rule 3, step 3 and rule 5: the cheapest candidate is chosen; when none
\* meets the task the agent stops, the basket cleared, without checkout
Select ==
    /\ apc = "clear" /\ stage = "test" /\ cand > Len(cands)
    /\ BasketEnsured
    /\ IF Feasible = {}
       THEN apc' = "infeasible" /\ UNCHANGED <<stage, cand>>
       ELSE \E w \in Feasible :
                /\ \A k \in Feasible : prices[w].total <= prices[k].total
                /\ cand' = w
                /\ stage' = "final"
                /\ apc' = "add"
    /\ UNCHANGED <<cands, prices, mandated, acceptsFor, stock, toolLog>>
    /\ UNCHANGED <<faultsLeft, fetchSide, couponSide, sessionVars>>

\* lines 91-99 and rules 6, 7: checkout is called. It commits; or it fails
\* for inventory and the basket is to be adjusted; or it fails otherwise, the
\* tool returns the error text, and the prompt has no rule for what follows
Checkout ==
    /\ apc = "checkout"
    /\ \E ans \in CheckoutAnswers :
        /\ toolLog' = Append(toolLog, ToolCall("checkout", None, ans))
        /\ faultsLeft' = IF ans \in CheckoutContract THEN faultsLeft
                         ELSE faultsLeft - 1
        /\ IF ~ToolResult(ans).error THEN apc' = "committed"
           ELSE IF IsInventoryError(ToolResult(ans)) THEN apc' = "adjust"
           ELSE apc' \in {"failed", "checkout"}
    /\ UNCHANGED <<stage, cands, cand, prices, mandated, acceptsFor, stock>>
    /\ UNCHANGED <<fetchSide, couponSide, sessionVars>>

\* (mutant) the whole line is removed
Shortfall_All(available, requested) == requested

\* (mutant) nothing is removed
Shortfall_None(available, requested) == 0

\* rule 6: "Calculate difference (Y - X)"
Shortfall(available, requested) == requested - available

\* rule 6: that amount is removed with remove_product, and checkout is
\* called again immediately
Adjust ==
    /\ apc = "adjust"
    /\ LET d == LastTool.result.detail
       IN  RemoveProduct(d[2], Shortfall(d[3], d[4]))
    /\ apc' = "checkout"
    /\ UNCHANGED <<stage, cands, cand, prices, mandated, acceptsFor, stock>>
    /\ UNCHANGED <<faultsLeft, fetchSide, coupon, priceVars, couponVars,
                   sessionVars>>

\* rule 6, "someone bought it before you": the stock of a line falls under
\* the agent, below what the basket asks for
StockDrop ==
    /\ apc = "checkout"
    /\ \E s \in Skus : \E n \in 0..MaxStock :
        /\ stock[s] >= lines[s] /\ n < lines[s]
        /\ stock' = [stock EXCEPT ![s] = n]
    /\ UNCHANGED <<apc, stage, cands, cand, prices, mandated, acceptsFor,
                   toolLog>>
    /\ UNCHANGED <<faultsLeft, fetchSide, couponSide, sessionVars>>

NextAgent ==
    \/ ClearLine \/ BeginCandidate \/ AddLine \/ Evaluate \/ Select
    \/ Checkout \/ Adjust \/ StockDrop

\* ------------------------------------------------------------
\* Initial states and specifications
\* ------------------------------------------------------------
\* The basket side while only the catalog is fetched.
BasketIdle ==
    /\ lines = EmptyBasket
    /\ coupon = None
    /\ accepted = {}
    /\ quote = [c \in {None} |-> 0]
    /\ removeNeedsCoupon = FALSE

\* The catalog side once an empty catalog was fetched.
FetchDone ==
    /\ catalogLen = 0
    /\ maxPage = DefaultLimit
    /\ lazyEnd = FALSE
    /\ fpc = "returned"
    /\ all_products = <<>>
    /\ offset = 0
    /\ limit = DefaultLimit
    /\ retried_with_lower_limit = FALSE
    /\ restarts = 0
    /\ listLog = <<[offset |-> 0, limit |-> DefaultLimit, scan |-> 0,
                    answer |-> [kind |-> "page", products |-> <<>>,
                                next_offset |-> NoNextPage]]>>

InitBasket ==
    /\ lines \in {ExampleBasket, OtherBasket}
    /\ accepted \in SUBSET Codes
    /\ quote \in [accepted \cup {None} -> 1..MaxTotal]
    /\ coupon \in accepted \cup {None}
    /\ removeNeedsCoupon \in BOOLEAN

InitCoupon ==
    /\ cpc = "idle"
    /\ coupons = <<>>
    /\ idx = 0
    /\ best_coupon = None
    /\ best_total = Unbound
    /\ base_total = Unbound
    /\ report = <<>>
    /\ result = None
    /\ wire = <<>>
    /\ prev = NoPrev

\* The script before its loop, with a session of any length.
InitSession ==
    /\ nTasks \in 0..MaxTasks
    /\ skip \in 0..MaxSkip
    /\ spc = "for"
    /\ i = 0
    /\ stats = None
    /\ calls = <<>>

\* No agent is at work.
AgentIdle ==
    /\ apc = "idle"
    /\ stage = "test"
    /\ cands = <<>>
    /\ cand = 0
    /\ prices = <<>>
    /\ mandated = None
    /\ acceptsFor = {}
    /\ stock = [s \in Skus |-> 0]
    /\ toolLog = <<>>

\* No session is running.
SessionIdle ==
    /\ nTasks = 0
    /\ skip = 0
    /\ spc = "idle"
    /\ i = 0
    /\ stats = None
    /\ calls = <<>>

\* What is outside the function under study stays as it is.
OtherIdle == SessionIdle /\ AgentIdle

\* fetch_all_products against a store that may fail requests
InitFetchOnly == InitFetch /\ BasketIdle /\ InitCoupon /\ OtherIdle

SpecFetch == InitFetchOnly /\ [][NextFetch]_vars

\* fetch_all_products, its loop (line 18) never left waiting: every request
\* is answered and the next iteration runs
SpecFetchFair == InitFetchOnly /\ [][NextFetch]_vars /\ WF_vars(NextFetch)

\* find_best_coupon against a store that may fail requests
InitCouponOnly ==
    /\ FetchDone /\ faultsLeft \in 0..MaxFaults /\ InitBasket /\ InitCoupon
    /\ OtherIdle

SpecCoupon == InitCouponOnly /\ [][NextCoupon]_vars

\* find_best_coupon called twice against a store that answers by contract
InitRerun ==
    FetchDone /\ faultsLeft = 0 /\ InitBasket /\ InitCoupon /\ OtherIdle

SpecRerun == InitRerun /\ [][NextRerun]_vars

\* the session loop of main.py; every call of the core may fail
InitSessionOnly ==
    /\ FetchDone /\ faultsLeft = 0 /\ BasketIdle /\ InitCoupon
    /\ InitSession /\ AgentIdle

SpecSession == InitSessionOnly /\ [][NextSession]_vars

\* The agent takes up a task: the basket may hold what an earlier run left.
InitAgent ==
    /\ apc = "clear"
    /\ stage = "test"
    /\ cands \in CandidateLists
    /\ cand = 1
    /\ prices = <<>>
    /\ mandated \in {None, "SALEX"}
    /\ acceptsFor \in (IF mandated = None THEN {{}}
                       ELSE SUBSET {cands[k] : k \in 1..Len(cands)})
    /\ stock = [s \in Skus |-> MaxStock]
    /\ toolLog = <<>>

\* the agent's tool calls for one task; checkout may fail
InitAgentOnly ==
    /\ FetchDone /\ faultsLeft \in 0..MaxFaults
    /\ lines \in {EmptyBasket, OtherBasket}
    /\ coupon = None
    /\ accepted = {}
    /\ quote = [c \in {None} |-> 0]
    /\ removeNeedsCoupon = FALSE
    /\ InitCoupon /\ SessionIdle /\ InitAgent

SpecAgent == InitAgentOnly /\ [][NextAgent]_vars

\* ------------------------------------------------------------
\* Properties of fetch_all_products
\* ------------------------------------------------------------
IsPrefix(s, t) == Len(s) <= Len(t) /\ \A k \in 1..Len(s) : s[k] = t[k]

RECURSIVE Concat(_, _)
\* The products of the pages of scan sc in log, in the order they were read.
Concat(log, sc) ==
    IF log = <<>> THEN <<>>
    ELSE LET e == log[Len(log)]
             rest == SubSeq(log, 1, Len(log) - 1)
         IN  IF e.scan = sc /\ e.answer.kind = "page"
             THEN Concat(rest, sc) \o e.answer.products
             ELSE Concat(rest, sc)

\* The store answered every request so far by its contract.
Honest ==
    \A k \in 1..Len(listLog) :
        listLog[k].answer = ListProducts(listLog[k].offset, listLog[k].limit)

\* Every page read so far was the catalog's page at the offset asked for.
PagesHonest ==
    \A k \in 1..Len(listLog) :
        listLog[k].answer.kind = "page"
            => listLog[k].answer = PageOf(listLog[k].offset, listLog[k].limit)

IsPageLimit(ans) == ans.kind = "api" /\ PageLimitMatch(ans)

LastAnswer == listLog[Len(listLog)].answer

\* C4: against a store that enforces a page size of 1 or 2 (requested: 3) and
\* answers every request by its contract, fetch_all_products returns the whole
\* catalog, each SKU once and in listing order, after at most one restart.
C4_CompleteCatalog ==
    (Honest /\ maxPage \in 1..(DefaultLimit - 1))
        => /\ fpc # "raised"
           /\ restarts <= 1
           /\ fpc = "returned"
                => /\ all_products = Catalog
                   /\ Len(all_products) = catalogLen
                   /\ \A j, k \in 1..Len(all_products) :
                        all_products[j] = all_products[k] => j = k

C4_Witness ==
    /\ fpc = "returned" /\ Honest /\ maxPage = 2 /\ catalogLen >= 3
    /\ restarts = 1 /\ all_products = Catalog

\* C5: the scan is restarted at most once per fetch whatever the store answers,
\* and a page-limit error that arrives after the restart ends the fetch: it is
\* the last request, and nothing is reset.
C5_RestartAtMostOnce ==
    /\ restarts <= 1
    /\ restarts = 1 <=> retried_with_lower_limit
    /\ \A k \in 1..Len(listLog) :
        (IsPageLimit(listLog[k].answer) /\ listLog[k].scan = 1)
            => /\ k = Len(listLog)
               /\ fpc = "returned"
               /\ restarts = 1
               /\ all_products = Concat(listLog, 1)

C5_Witness ==
    /\ fpc = "returned" /\ restarts = 1 /\ Len(listLog) >= 3
    /\ IsPageLimit(LastAnswer) /\ AvailablePages(LastAnswer) > 0
    /\ Len(all_products) > 0

\* C6 (as stated): a request that fails with any error that is no page-limit
\* error is the last request, and the fetch returns what the current scan read.
C6_AnyErrorReturnsPartial ==
    \A k \in 1..Len(listLog) :
        (listLog[k].answer.kind # "page" /\ ~IsPageLimit(listLog[k].answer))
            => /\ k = Len(listLog)
               /\ fpc = "returned"
               /\ all_products = Concat(listLog, restarts)

\* C6 (amended): a request that fails with an ApiException that is no
\* page-limit error is the last request, and the fetch returns, without
\* raising, exactly the products of the pages the current scan read (a prefix
\* of the catalog when the pages were the catalog's); any other exception of a
\* request is the last request too, and propagates out of the fetch.
C6_ApiErrorReturnsPartial ==
    \A k \in 1..Len(listLog) :
        /\ (listLog[k].answer.kind = "api" /\ ~IsPageLimit(listLog[k].answer))
            => /\ k = Len(listLog)
               /\ fpc = "returned"
               /\ all_products = Concat(listLog, restarts)
               /\ PagesHonest => IsPrefix(all_products, Catalog)
        /\ listLog[k].answer.kind = "exc"
            => (k = Len(listLog) /\ fpc = "raised")

C6_Witness ==
    /\ fpc = "returned" /\ Len(listLog) >= 3 /\ restarts = 1 /\ PagesHonest
    /\ LastAnswer = OtherApiError
    /\ Len(all_products) > 0 /\ Len(all_products) < catalogLen

\* Every request so far was answered by the store, with a page or an error.
Answered ==
    \A k \in 1..Len(listLog) : listLog[k].answer.kind \in {"page", "api"}

\* Every page so far ended the listing or continued past the offset asked for.
Progressing ==
    \A k \in 1..Len(listLog) :
        listLog[k].answer.kind = "page"
            => \/ listLog[k].answer.next_offset = NoNextPage
               \/ listLog[k].answer.next_offset > listLog[k].offset

\* What the fetch may still do: one restart while none was made, and the
\* offsets left up to the end of the largest catalog.
Rank ==
    (IF retried_with_lower_limit THEN 0 ELSE MaxCatalog + 2)
        + (MaxCatalog + 1 - offset)

\* C17: a response with next_offset = -1 is the last of the fetch, which then
\* has returned; while the store answers every request (with a page that ends
\* the listing or continues past the requested offset, or with an error) each
\* iteration that stays in the loop lowers Rank, which is never negative, and
\* the fetch eventually returns.
C17_StopsAtEnd ==
    \A k \in 1..Len(listLog) :
        (listLog[k].answer.kind = "page"
         /\ listLog[k].answer.next_offset = NoNextPage)
            => (k = Len(listLog) /\ fpc = "returned")

C17_RankLowered ==
    (Answered' /\ Progressing' /\ fpc' = "loop" /\ listLog' # listLog)
        => (Rank' < Rank /\ Rank' >= 0)

C17_FetchTerminates ==
    /\ []C17_StopsAtEnd
    /\ [][C17_RankLowered]_vars
    /\ <>(fpc = "returned" \/ ~(Answered /\ Progressing))

C17_Witness ==
    /\ fpc = "returned" /\ Answered /\ Progressing /\ ~Honest
    /\ restarts = 1 /\ Len(listLog) >= 4
    /\ LastAnswer.kind = "page" /\ LastAnswer.next_offset = NoNextPage
    /\ Len(all_products) >= 2

\* ------------------------------------------------------------
\* Properties of find_best_coupon
\* ------------------------------------------------------------
\* The baseline was read: base_total, best_total and report are bound.
HasBaseline ==
    \/ cpc \in {"apply", "view", "finish"}
    \/ /\ cpc = "returned"
       /\ result \in {"Applied best", "Error re-applying best coupon",
                      "No coupon applied"}

LastWire == wire[Len(wire)]

AllInvalid == \A k \in 1..Len(coupons) : coupons[k] \notin accepted

\* C1: the best total the evaluator selects is never above the baseline total
\* it read at the start (the answer to its first ViewBasket), and it is below
\* it exactly when a best coupon was selected.
C1_BestAtMostBaseline ==
    HasBaseline
        => /\ base_total = wire[2].answer.total
           /\ best_total <= base_total
           /\ best_coupon # None <=> best_total < base_total

C1_Witness ==
    /\ cpc = "returned" /\ result = "Applied best"
    /\ best_total < base_total /\ Len(coupons) >= 2

C7_RejectedRecorded ==
    \A k \in 1..Len(wire) :
        (/\ wire[k].req.op = "ApplyCoupon" /\ wire[k].pos <= Len(coupons)
         /\ wire[k].answer.kind = "api")
            => report[wire[k].pos + 1] =
                    [code |-> coupons[wire[k].pos], kind |-> "Invalid"]

C7_BestIsAccepted == best_coupon # None => best_coupon \in accepted

C7_AllCodesTried ==
    (cpc = "finish" \/ (cpc = "returned" /\ HasBaseline))
        => /\ Len(report) = Len(coupons) + 1
           /\ \A j \in 1..Len(coupons) :
                /\ report[j + 1].code = coupons[j]
                /\ \E k \in 1..Len(wire) :
                    /\ wire[k].req = ApplyCouponReq(coupons[j])
                    /\ wire[k].pos = j
                    /\ wire[k].answer.kind = "ok"
                        => (wire[k + 1].req = ViewBasketReq /\ wire[k + 1].pos = j)

C7_RejectionStep ==
    (/\ cpc = "apply" /\ Len(wire') = Len(wire) + 1
     /\ wire'[Len(wire')].answer.kind = "api")
        => /\ best_coupon' = best_coupon
           /\ best_total' = best_total
           /\ idx' = idx + 1
           /\ cpc' = IF idx < Len(coupons) THEN "apply" ELSE "finish"

C7_InvalidCodeSkipped ==
    /\ [](C7_RejectedRecorded /\ C7_BestIsAccepted /\ C7_AllCodesTried)
    /\ [][C7_RejectionStep]_vars

C7_Witness ==
    /\ cpc = "returned" /\ result = "Applied best" /\ Len(coupons) >= 2
    /\ coupons[1] \notin accepted /\ report[2].kind = "Invalid"
    /\ wire[3].answer = Rejected
    /\ best_coupon = coupons[2]

\* The positions of report that hold a total read for a code.
Totals == {k \in 2..Len(report) : report[k].kind = "total"}

\* C8: the best code is the first code of the list whose total is the least
\* total read, when that is below the baseline, and there is none otherwise: a
\* later code with an equal or higher total does not replace it.
C8_FirstMinimumWins ==
    HasBaseline
        => LET below == {k \in Totals : report[k].total < base_total}
           IN  IF below = {}
               THEN best_coupon = None /\ best_total = base_total
               ELSE LET first == CHOOSE k \in below :
                                    \A j \in Totals :
                                        \/ report[k].total < report[j].total
                                        \/ (report[k].total = report[j].total
                                            /\ k <= j)
                    IN  /\ best_total = report[first].total
                        /\ best_coupon = report[first].code

C8_Witness ==
    /\ cpc = "returned" /\ result = "Applied best" /\ Len(coupons) >= 2
    /\ coupons[1] # coupons[2]
    /\ report[2].kind = "total" /\ report[3].kind = "total"
    /\ report[2].total = report[3].total /\ report[2].total < base_total
    /\ best_coupon = coupons[1] /\ coupon = coupons[1]

\* C9: called a second time with the same list on the same basket, against a
\* store that answers by contract, the evaluator ends as the first time: same
\* return, same best code, same best total, same active coupon.
C9_SecondRunAgrees ==
    (cpc = "returned" /\ prev.called)
        => /\ result = prev.result
           /\ best_coupon = prev.best_coupon
           /\ best_total = prev.best_total
           /\ coupon = prev.coupon

C9_Witness ==
    /\ cpc = "returned" /\ prev.called /\ result = "Applied best"
    /\ Len(coupons) >= 2 /\ coupons[2] \in accepted /\ coupons[2] # coupons[1]
    /\ coupon = coupons[1] /\ lines = ExampleBasket

\* C10: the evaluator sends RemoveCoupon, ViewBasket and ApplyCoupon requests
\* only, and no step of it changes the basket's lines.
C10_OnlyCouponRequests ==
    \A k \in 1..Len(wire) :
        wire[k].req.op \in {"RemoveCoupon", "ViewBasket", "ApplyCoupon"}

C10_LinesUntouched ==
    /\ []C10_OnlyCouponRequests
    /\ [][lines' = lines]_vars

C10_Witness ==
    /\ cpc = "returned" /\ result = "Applied best" /\ lines = ExampleBasket
    /\ Len(wire) >= 6 /\ coupon # None

\* C18: called with an empty list the evaluator returns at once: it has sent
\* no request when it returns, and the step of the call leaves the basket's
\* lines and the coupon active on it as they were.
C18_EmptyCallStep ==
    (cpc = "idle" /\ cpc' # "idle" /\ coupons' = <<>>)
        => /\ cpc' = "returned" /\ result' = "No coupons provided."
           /\ wire' = <<>>
           /\ lines' = lines /\ coupon' = coupon
           /\ faultsLeft' = faultsLeft

C18_EmptyListNoRequest ==
    /\ []((cpc # "idle" /\ coupons = <<>>) => (cpc = "returned" /\ wire = <<>>))
    /\ [][C18_EmptyCallStep]_vars

C18_Witness ==
    /\ cpc = "returned" /\ coupons = <<>> /\ result = "No coupons provided."
    /\ coupon # None /\ lines = ExampleBasket /\ wire = <<>>

\* C16: the baseline is the total of the basket with no coupon active: no
\* coupon is active when the baseline is about to be read, and the baseline
\* held afterwards is the store's total for the lines without a coupon.
C16_BaselineWithoutCoupon ==
    /\ cpc = "baseline" => coupon = None
    /\ HasBaseline => base_total = quote[None]

\* The case of C16: a coupon was active at the call, the first RemoveCoupon
\* failed and the baseline was read all the same.
C16_FailedClearing ==
    /\ HasBaseline /\ wire[1].req = RemoveCouponReq /\ wire[1].fault
    /\ coupon # None /\ base_total = quote[coupon] /\ base_total < quote[None]
    /\ report[1].code = "No coupon"

\* The requests the store failed, by their place in the log.
Failed == {k \in 1..Len(wire) : wire[k].fault}

\* C15 (as stated): a request the store fails (with a generic API error or a
\* transport error) is the last request of the call, and the call ends there,
\* by an exception or by returning an error message.
C15_FailureAborts ==
    \A k \in Failed :
        /\ k = Len(wire)
        /\ cpc \in {"raised", "returned"}
        /\ cpc = "returned"
            => result \in {"Error accessing basket",
                           "Error re-applying best coupon"}

\* C15 (amended): what becomes of a failed request depends on where it was
\* sent. A failed RemoveCoupon is passed over; a failure on the baseline read
\* ends the call (an error message for an API error, the exception itself
\* otherwise); a failure while a code is tried is recorded against that code
\* and the loop moves on; a failed re-apply returns an error message. No
\* failed request is sent again.
C15_FailureHandledInPlace ==
    \A k \in Failed :
        LET w == wire[k]
            api == w.answer.kind = "api"
        IN  /\ k < Len(wire)
                => (wire[k + 1].req # w.req \/ wire[k + 1].pos > w.pos)
            /\ CASE w.req.op = "RemoveCoupon" /\ w.pos = 0 ->
                        /\ cpc # "clear"
                        /\ k = Len(wire) => cpc = "baseline"
                 [] w.req.op = "RemoveCoupon" /\ w.pos > 0 ->
                        /\ k = Len(wire) /\ cpc = "returned"
                        /\ result = "No coupon applied"
                 [] w.req.op = "ViewBasket" /\ w.pos = 0 ->
                        /\ k = Len(wire)
                        /\ IF api
                           THEN cpc = "returned"
                                /\ result = "Error accessing basket"
                           ELSE cpc = "raised"
                 [] w.pos \in 1..Len(coupons) ->
                        /\ cpc \in {"apply", "view", "finish", "returned"}
                        /\ idx > w.pos
                        /\ report[w.pos + 1] =
                                [code |-> coupons[w.pos],
                                 kind |-> IF api THEN "Invalid" ELSE "Error"]
                 [] OTHER ->
                        /\ k = Len(wire) /\ cpc = "returned"
                        /\ result = "Error re-applying best coupon"

C15_Witness ==
    /\ cpc = "returned" /\ result = "Applied best" /\ Len(coupons) >= 2
    /\ Failed # {} /\ LET k == CHOOSE j \in Failed : TRUE
                      IN  /\ wire[k].req.op = "ViewBasket" /\ wire[k].pos = 1
                          /\ wire[k].answer.kind = "exc" /\ k < Len(wire)
    /\ report[2].kind = "Error" /\ best_coupon = coupons[2]

\* ------------------------------------------------------------
\* Properties of the session loop
\* ------------------------------------------------------------
\* The tasks the loop does not skip.
Handled == {t \in 0..(nTasks - 1) : t >= skip}

Count(op, t) ==
    Cardinality({k \in 1..Len(calls) : calls[k].op = op /\ calls[k].task = t})

\* C19: each call is where the loop puts it. start_task opens a task, and the
\* task before it (the first handled task excepted) was completed just
\* before; run_agent follows the start_task of its task; log_llm follows a
\* run_agent that returned statistics; complete_task follows the log_llm of
\* its task, or a run_agent that raised; submit_session is the last call and
\* follows the completion of the last task.
C19_InPlace(k) ==
    LET c == calls[k]
        p == calls[k - 1]
    IN  CASE c.op = "start_task" ->
                /\ c.task \in Handled
                /\ IF c.task = skip THEN k = 1
                   ELSE k > 1 /\ p.op = "complete_task" /\ p.task = c.task - 1
          [] c.op = "run_agent" ->
                k > 1 /\ p = Event("start_task", c.task, "ok")
          [] c.op = "log_llm" ->
                k > 1 /\ p = Event("run_agent", c.task, "stats")
          [] c.op = "complete_task" ->
                /\ k > 1 /\ p.task = c.task
                /\ \/ p.op = "log_llm"
                   \/ p = Event("run_agent", c.task, "raised")
          [] OTHER ->
                /\ c.op = "submit_session" /\ k = Len(calls)
                /\ spc \in {"done", "crashed"}
                /\ IF Handled = {} THEN k = 1
                   ELSE k > 1 /\ p.op = "complete_task"
                        /\ p.task = nTasks - 1

\* Every task the loop has passed was skipped without a call, or was started,
\* run and completed once each; the session is submitted once when the script
\* ends, and not before.
C19_OncePerTask ==
    /\ \A t \in 0..(nTasks - 1) :
        /\ t < i /\ t \in Handled
            => /\ Count("start_task", t) = 1
               /\ Count("run_agent", t) = 1
               /\ Count("complete_task", t) = 1
               /\ Count("log_llm", t) <= 1
        /\ t \notin Handled \/ t > i
            => \A k \in 1..Len(calls) : calls[k].task # t
    /\ spc = "done" => (i = nTasks /\ Count("submit_session", nTasks) = 1)
    /\ spc \in {"for", "run", "log", "complete"}
            => Count("submit_session", nTasks) = 0
    /\ spc = "crashed"
            => calls[Len(calls)].op \in {"start_task", "submit_session"}

C19_SessionOrder ==
    /\ \A k \in 1..Len(calls) : C19_InPlace(k)
    /\ C19_OncePerTask

C19_Witness ==
    /\ spc = "done" /\ nTasks = 3 /\ skip = 1 /\ Len(calls) = 8
    /\ calls[2] = Event("run_agent", 1, "raised")
    /\ calls[3] = Event("complete_task", 1, "exc")
    /\ calls[5] = Event("run_agent", 2, "stats")
    /\ calls[6] = Event("log_llm", 2, "api")
    /\ calls[8] = Event("submit_session", 3, "ok")

\* ------------------------------------------------------------
\* Properties of the agent's procedure
\* ------------------------------------------------------------
\* The places of toolLog where the tool was called.
CallsOf(tool) == {k \in 1..Len(toolLog) : toolLog[k].tool = tool}

\* m is the checkout attempt that follows attempt k.
NextAttempt(k, m) ==
    /\ k \in CallsOf("checkout") /\ m \in CallsOf("checkout") /\ k < m
    /\ \A j \in CallsOf("checkout") : ~(k < j /\ j < m)

InventoryFailures ==
    {k \in CallsOf("checkout") : IsInventoryError(toolLog[k].result)}

OtherFailures ==
    {k \in CallsOf("checkout") :
        toolLog[k].result.error /\ ~IsInventoryError(toolLog[k].result)}

C13_Reduces ==
    /\ \A k \in InventoryFailures : \A m \in CallsOf("checkout") :
        NextAttempt(k, m)
            => Quantity(toolLog[m].before) < Quantity(toolLog[k].before)
    /\ \A k \in CallsOf("checkout") :
        Cardinality(InventoryFailures)
            <= Quantity(toolLog[k].before) + Cardinality({j \in InventoryFailures : j < k})

====
